---------------------------- MODULE Spec2Model ----------------------------
(***************************************************************************)
(* RiceGuard backend (src/backend/main.py).                                *)
(*                                                                         *)
(* Two specifications share this module:                                   *)
(*   Spec     one run of analyze_with_roboflow, statement by statement:    *)
(*            image decoding, the detection call, the filter loop, the     *)
(*            calibration, the per-grain classification loop, the chalky   *)
(*            sanity correction and the report;                            *)
(*   SpecApi  POST /analyze for concurrent requests: the add_request_id    *)
(*            middleware, the handler's checks, the worker thread started  *)
(*            by asyncio.to_thread and the timeout of asyncio.wait_for.    *)
(*                                                                         *)
(* Python floats are modelled as exact rationals [num, den] in lowest      *)
(* terms (den > 0); pixel sizes are integers.  Strings that the code       *)
(* inspects character by character (class labels) are sequences of         *)
(* one-character strings.                                                  *)
(***************************************************************************)
EXTENDS Integers, Sequences, FiniteSets, TLC

VARIABLES
    \* ---- one run of analyze_with_roboflow (Spec) ----
    pc,                 \* position in analyze_with_roboflow
    exc,                \* exception that left the function, "none" if none
    preds,              \* result.get("predictions", [])
    grains,             \* list built by the filter loop
    counts,             \* dict(good, broken, chalky, foreign)
    lengths_mm,         \* recorded length samples
    widths_mm,          \* recorded width samples
    good_lengths_px,
    px_to_mm,
    median_good_len_mm,
    median_area_mm2,
    idx,                \* position of the classification loop in grains
    total,
    report,             \* the AnalysisResult returned, NoReport before
    \* ---- POST /analyze for each request (SpecApi) ----
    request,            \* what the client sent: content type and file body
    request_id,         \* request.state.request_id, 0 before the middleware
    next_uuid,          \* the next value uuid.uuid4() returns
    handler,            \* position of the request's task
    caught,             \* the exception analyze() caught, "none" if none
    worker,             \* the thread started by asyncio.to_thread
    infer_calls,        \* calls of rf.infer made for the request
    inner,              \* what call_next(request) gave the middleware
    response            \* what the client received, NoResponse before

runVars == <<pc, exc, preds, grains, counts, lengths_mm, widths_mm,
             good_lengths_px, px_to_mm, median_good_len_mm, median_area_mm2,
             idx, total, report>>

apiVars == <<request, request_id, next_uuid, handler, caught, worker,
             infer_calls, inner, response>>

vars == <<runVars, apiVars>>

-----------------------------------------------------------------------------
(* Bounds of the model *)

\* longest prediction list the detection model returns
MaxPreds == 3

-----------------------------------------------------------------------------
(* Exact rational arithmetic standing for Python float arithmetic *)

Abs(n) == IF n < 0 THEN -n ELSE n

RECURSIVE GCD(_, _)
GCD(a, b) == IF b = 0 THEN a ELSE GCD(b, a % b)

Rat(n, d) ==
    LET g == GCD(Abs(n), d)
    IN  [num |-> n \div g, den |-> d \div g]

FromInt(n) == [num |-> n, den |-> 1]

RMul(a, b) ==
    LET g1 == GCD(Abs(a.num), b.den)
        g2 == GCD(Abs(b.num), a.den)
    IN  [num |-> (a.num \div g1) * (b.num \div g2),
         den |-> (a.den \div g2) * (b.den \div g1)]

\* a / b for b > 0
RDiv(a, b) == RMul(a, [num |-> b.den, den |-> b.num])

RSub(a, b) ==
    LET g == GCD(a.den, b.den)
        l == (a.den \div g) * b.den
    IN  Rat(a.num * (l \div a.den) - b.num * (l \div b.den), l)

RAdd(a, b) == RSub(a, [num |-> -b.num, den |-> b.den])

RLess(a, b) == RSub(a, b).num < 0

RLeq(a, b) == RSub(a, b).num <= 0

RMin(a, b) == IF RLess(b, a) THEN b ELSE a

RMax(a, b) == IF RLess(a, b) THEN b ELSE a

\* np.median of a non-empty list of integers
MedianInt(s) ==
    LET o == SortSeq(s, LAMBDA a, b : a < b)
        n == Len(o)
    IN  IF n % 2 = 1 THEN FromInt(o[(n + 1) \div 2])
        ELSE Rat(o[n \div 2] + o[n \div 2 + 1], 2)

\* np.median of a non-empty list of floats
MedianRat(s) ==
    LET o == SortSeq(s, LAMBDA a, b : RLess(a, b))
        n == Len(o)
    IN  IF n % 2 = 1 THEN o[(n + 1) \div 2]
        ELSE RMul(RAdd(o[n \div 2], o[n \div 2 + 1]), Rat(1, 2))

\* round(v, 2) for v >= 0: the nearest multiple of 1/100, ties to even
Round2(v) ==
    LET n == v.num * 100
        q == n \div v.den
        r == n % v.den
        k == IF 2 * r < v.den THEN q
             ELSE IF 2 * r > v.den THEN q + 1
             ELSE IF q % 2 = 0 THEN q ELSE q + 1
    IN  Rat(k, 100)

\* int(v) for v >= 0
IntOf(v) == v.num \div v.den

-----------------------------------------------------------------------------
(* Environment defaults, lines 24-37 *)

PX_TO_MM == Rat(18, 100)
TARGET_MEDIAN_GRAIN_LENGTH_MM == Rat(74, 10)
WIDTH_CORRECTION_FACTOR == Rat(42, 100)
CLAMP_LENGTH_MM_MIN == Rat(55, 10)
CLAMP_LENGTH_MM_MAX == Rat(95, 10)
CLAMP_WIDTH_MM_MIN == Rat(14, 10)
CLAMP_WIDTH_MM_MAX == Rat(28, 10)
BROKEN_RELATIVE_LENGTH_FACTOR == Rat(6, 10)
MAX_CHALKY_RATIO == Rat(35, 100)

\* thresholds of is_foreign_by_geometry
FOREIGN_WIDTH_MM == Rat(40, 10)
FOREIGN_ASPECT_RATIO == Rat(115, 100)
FOREIGN_AREA_RATIO == Rat(40, 10)

\* 1 / 1e-9, the epsilon added to the two denominators
EPS_INV == 1000000000

-----------------------------------------------------------------------------
(* Strings as character sequences: norm and the label predicates *)

UpperChars == <<"A","B","C","D","E","F","G","H","I","J","K","L","M",
                "N","O","P","Q","R","S","T","U","V","W","X","Y","Z">>
LowerChars == <<"a","b","c","d","e","f","g","h","i","j","k","l","m",
                "n","o","p","q","r","s","t","u","v","w","x","y","z">>
Whitespace == {" ", "\t", "\n"}

\* str.lower()
Lower(s) ==
    [i \in 1..Len(s) |->
        IF \E k \in 1..26 : UpperChars[k] = s[i]
        THEN LowerChars[CHOOSE k \in 1..26 : UpperChars[k] = s[i]]
        ELSE s[i]]

\* str.replace("-", "_")
ReplaceHyphen(s) == [i \in 1..Len(s) |-> IF s[i] = "-" THEN "_" ELSE s[i]]

\* str.strip()
RECURSIVE Strip(_)
Strip(s) ==
    IF s = <<>> THEN s
    ELSE IF Head(s) \in Whitespace THEN Strip(Tail(s))
    ELSE IF s[Len(s)] \in Whitespace THEN Strip(SubSeq(s, 1, Len(s) - 1))
    ELSE s

norm(c) == Strip(ReplaceHyphen(Lower(c)))

\* sub in s
Contains(s, sub) ==
    \E i \in 0..(Len(s) - Len(sub)) : SubSeq(s, i + 1, i + Len(sub)) = sub

is_good(c) ==
    \/ Contains(c, <<"g","o","o","d">>)
    \/ c \in {<<"w","h","o","l","e">>,
              <<"w","h","o","l","e","g","r","a","i","n">>}

is_broken(c) == Contains(c, <<"b","r","o","k","e","n">>)

is_chalky(c) == Contains(c, <<"c","h","a","l","k","y">>)

is_foreign(c) == Contains(c, <<"f","o","r","e","i","g","n">>)

-----------------------------------------------------------------------------
(* Helpers of the core *)

\* clamp without its upper bound
clamp_NoUpper(v, lo, hi) == RMax(lo, v)

clamp(v, lo, hi) == RMax(lo, RMin(v, hi))

\* The quotient x / (y + 1e-9) (eps = TRUE) or x / y (eps = FALSE), with y >= 0,
\* kept unevaluated: its comparisons with a threshold c > 0 are decided
\* exactly from d = x - c*y, which is compared with c * 1e-9.
Quot(x, y, eps) == [x |-> x, y |-> y, eps |-> eps]

CeilDiv(m, k) == (m \div k) + (IF m % k = 0 THEN 0 ELSE 1)

\* q >= c
QuotGeq(q, c) ==
    LET d == RSub(q.x, RMul(c, q.y))
    IN  IF q.eps THEN d.num * c.den >= CeilDiv(c.num * d.den, EPS_INV)
        ELSE d.num >= 0

\* q <= c
QuotLeq(q, c) ==
    LET d == RSub(q.x, RMul(c, q.y))
    IN  IF q.eps THEN d.num * c.den <= (c.num * d.den) \div EPS_INV
        ELSE d.num <= 0

is_foreign_by_geometry(width_mm_raw, aspect_ratio, area_ratio) ==
    IF RLeq(FOREIGN_WIDTH_MM, width_mm_raw) THEN TRUE
    ELSE IF QuotLeq(aspect_ratio, FOREIGN_ASPECT_RATIO) THEN TRUE
    ELSE IF QuotGeq(area_ratio, FOREIGN_AREA_RATIO) THEN TRUE
    ELSE FALSE

-----------------------------------------------------------------------------
(* JSON values of a prediction: numbers and strings; float() of them *)

Num(v) == [num |-> v]
Str(s) == [str |-> s]

IsStr(j) == "str" \in DOMAIN j

Digits == <<"0","1","2","3","4","5","6","7","8","9">>

IsDigits(s) ==
    /\ s # <<>>
    /\ \A i \in 1..Len(s) : \E k \in 1..10 : Digits[k] = s[i]

RECURSIVE DigitsValue(_)
DigitsValue(s) ==
    IF s = <<>> THEN 0
    ELSE 10 * DigitsValue(SubSeq(s, 1, Len(s) - 1))
         + (CHOOSE k \in 1..10 : Digits[k] = s[Len(s)]) - 1

\* float(j) raises ValueError on a string that is not a number
FloatRaises(j) == IsStr(j) /\ ~IsDigits(Strip(j.str))

\* float(j) when it does not raise
Float(j) == IF IsStr(j) THEN DigitsValue(Strip(j.str)) ELSE j.num

Max2(a, b) == IF a < b THEN b ELSE a
Min2(a, b) == IF b < a THEN b ELSE a

\* The exception one iteration of the filter loop raises on p, "none" if none
PredRaises(p) ==
    IF "width" \notin DOMAIN p THEN "KeyError"
    ELSE IF FloatRaises(p.width) THEN "ValueError"
    ELSE IF "height" \notin DOMAIN p THEN "KeyError"
    ELSE IF FloatRaises(p.height) THEN "ValueError"
    ELSE IF Float(p.width) <= 0 \/ Float(p.height) <= 0 THEN "none"
    ELSE IF "class" \notin DOMAIN p THEN "KeyError"
    ELSE "none"

\* Whether the filter loop keeps p (it did not raise on it)
Survives(p) == Float(p.width) > 0 /\ Float(p.height) > 0

\* The dict appended to grains for a surviving p
Grain(p) ==
    [cls |-> norm(p.class.str),
     length_px |-> Max2(Float(p.width), Float(p.height)),
     width_px |-> Min2(Float(p.width), Float(p.height))]

\* The filter loop over ps: the exception it stops with and the grains built
RECURSIVE FilterLoop(_, _)
FilterLoop(ps, acc) ==
    IF ps = <<>> THEN [exc |-> "none", grains |-> acc]
    ELSE IF PredRaises(Head(ps)) # "none"
         THEN [exc |-> PredRaises(Head(ps)), grains |-> acc]
    ELSE IF ~Survives(Head(ps)) THEN FilterLoop(Tail(ps), acc)
    ELSE FilterLoop(Tail(ps), Append(acc, Grain(Head(ps))))

-----------------------------------------------------------------------------
(* Dynamic calibration, lines 137-149 *)

SeqMap(s, Op(_)) == [i \in 1..Len(s) |-> Op(s[i])]

GoodLengthsPx(gs) ==
    LET good == SelectSeq(gs, LAMBDA g : is_good(g.cls))
    IN  SeqMap(good, LAMBDA g : g.length_px)

\* calibration on the first good length instead of the median
PxToMm_First(good_px) ==
    IF good_px # <<>>
    THEN RDiv(TARGET_MEDIAN_GRAIN_LENGTH_MM, FromInt(good_px[1]))
    ELSE PX_TO_MM

PxToMm(good_px) ==
    IF good_px # <<>>
    THEN RDiv(TARGET_MEDIAN_GRAIN_LENGTH_MM, MedianInt(good_px))
    ELSE PX_TO_MM

MedianGoodLenMm(good_px, px) ==
    IF good_px # <<>>
    THEN MedianRat(SeqMap(good_px, LAMBDA l : RMul(FromInt(l), px)))
    ELSE FromInt(0)

AreaMm2(g, px) == RMul(FromInt(g.length_px * g.width_px), RMul(px, px))

MedianAreaMm2(gs, px) ==
    IF gs # <<>>
    THEN MedianRat(SeqMap(gs, LAMBDA g : AreaMm2(g, px)))
    ELSE FromInt(0)

-----------------------------------------------------------------------------
(* One iteration of the classification loop, lines 151-190 *)

LengthMmRaw(g, px) == RMul(FromInt(g.length_px), px)

WidthMmRaw(g, px) == RMul(FromInt(g.width_px), px)

AreaRatio(g, px, med_area) ==
    IF med_area.num > 0 THEN Quot(AreaMm2(g, px), med_area, TRUE)
    ELSE Quot(FromInt(0), FromInt(1), FALSE)

AspectRatio(g, px) == Quot(LengthMmRaw(g, px), WidthMmRaw(g, px), TRUE)

\* The condition of line 161
ForeignTest(g, px, med_area) ==
    \/ is_foreign(g.cls)
    \/ is_foreign_by_geometry(WidthMmRaw(g, px), AspectRatio(g, px),
                              AreaRatio(g, px, med_area))

\* the override comparing the length in pixels with the median in mm
HeuristicBroken_Px(g, px, med_good) ==
    /\ med_good.num # 0
    /\ RLess(FromInt(g.length_px), RMul(BROKEN_RELATIVE_LENGTH_FACTOR, med_good))

\* The condition of line 179
HeuristicBroken(g, px, med_good) ==
    /\ med_good.num # 0
    /\ RLess(LengthMmRaw(g, px), RMul(BROKEN_RELATIVE_LENGTH_FACTOR, med_good))

\* the chain with the good branch tried before the broken and chalky ones
Bucket_GoodFirst(g, px, med_good, med_area) ==
    IF ForeignTest(g, px, med_area) THEN "foreign"
    ELSE IF is_good(g.cls)
         THEN IF HeuristicBroken(g, px, med_good) THEN "broken" ELSE "good"
    ELSE IF is_broken(g.cls) THEN "broken"
    ELSE IF is_chalky(g.cls) THEN "chalky"
    ELSE "none"

\* The counter the if/elif chain of lines 161-185 increments for g,
\* "none" when it reaches the final else
Bucket(g, px, med_good, med_area) ==
    IF ForeignTest(g, px, med_area) THEN "foreign"
    ELSE IF is_broken(g.cls) THEN "broken"
    ELSE IF is_chalky(g.cls) THEN "chalky"
    ELSE IF is_good(g.cls)
         THEN IF HeuristicBroken(g, px, med_good) THEN "broken" ELSE "good"
    ELSE "none"

\* Whether lines 188-190 are reached for a detection counted in bucket b
Recorded(b) == b \in {"good", "broken", "chalky"}

LengthSample(g, px) ==
    clamp(LengthMmRaw(g, px), CLAMP_LENGTH_MM_MIN, CLAMP_LENGTH_MM_MAX)

WidthSample(g, px) ==
    clamp(RMul(WidthMmRaw(g, px), WIDTH_CORRECTION_FACTOR),
          CLAMP_WIDTH_MM_MIN, CLAMP_WIDTH_MM_MAX)

Incr(cnt, b) == IF b = "none" THEN cnt ELSE [cnt EXCEPT ![b] = @ + 1]

\* The loop body on g: st holds counts, lengths_mm and widths_mm
ClassifyOne(st, g, px, med_good, med_area) ==
    LET b == Bucket(g, px, med_good, med_area)
    IN  [counts |-> Incr(st.counts, b),
         lengths_mm |-> IF Recorded(b)
                        THEN Append(st.lengths_mm, LengthSample(g, px))
                        ELSE st.lengths_mm,
         widths_mm |-> IF Recorded(b)
                       THEN Append(st.widths_mm, WidthSample(g, px))
                       ELSE st.widths_mm]

-----------------------------------------------------------------------------
(* Chalky sanity correction and the report, lines 192-211 *)

\* the total with foreign matter counted in
Total_WithForeign(cnt) == cnt.good + cnt.broken + cnt.chalky + cnt.foreign

Total(cnt) == cnt.good + cnt.broken + cnt.chalky

\* the cap rounded up instead of down
MaxChalky_Ceil(tot) ==
    LET v == RMul(MAX_CHALKY_RATIO, FromInt(tot))
    IN  CeilDiv(v.num, v.den)

MaxChalky(tot) == IntOf(RMul(MAX_CHALKY_RATIO, FromInt(tot)))

SanityCorrection(cnt, tot) ==
    IF tot > 0 /\ cnt.chalky > MaxChalky(tot)
    THEN LET excess == cnt.chalky - MaxChalky(tot)
         IN  [cnt EXCEPT !.chalky = @ - excess, !.good = @ + excess]
    ELSE cnt

\* the report defaulting to the upper clamp bounds
AnalysisResult_MaxDefault(tot, cnt, ls, ws) ==
    [total_grains |-> tot,
     good_grains |-> cnt.good,
     broken_grains |-> cnt.broken,
     foreign_matter |-> cnt.foreign,
     chalky_grains |-> cnt.chalky,
     avg_grain_length_mm |->
        IF ls # <<>> THEN Round2(MedianRat(ls)) ELSE CLAMP_LENGTH_MM_MAX,
     avg_grain_width_mm |->
        IF ws # <<>> THEN Round2(MedianRat(ws)) ELSE CLAMP_WIDTH_MM_MAX]

AnalysisResult(tot, cnt, ls, ws) ==
    [total_grains |-> tot,
     good_grains |-> cnt.good,
     broken_grains |-> cnt.broken,
     foreign_matter |-> cnt.foreign,
     chalky_grains |-> cnt.chalky,
     avg_grain_length_mm |->
        IF ls # <<>> THEN Round2(MedianRat(ls)) ELSE CLAMP_LENGTH_MM_MIN,
     avg_grain_width_mm |->
        IF ws # <<>> THEN Round2(MedianRat(ws)) ELSE CLAMP_WIDTH_MM_MIN]

NoReport == [total_grains |-> -1]

-----------------------------------------------------------------------------
(* What the detection model may return *)

Det(c, w, h) == [class |-> Str(c), width |-> Num(w), height |-> Num(h)]

Detections ==
    { Det(<<"G","o","o","d">>, 10, 40),
      Det(<<"g","o","o","d">>, 10, 20),
      Det(<<"g","o","o","d">>, 10, 11),
      Det(<<"g","o","o","d">>, 0, 10),
      Det(<<" ","W","h","o","l","e"," ">>, 20, 100),
      Det(<<"W","h","o","l","e","-","G","r","a","i","n">>, 10, 40),
      Det(<<"b","r","o","k","e","n">>, 10, -5),
      Det(<<"g","o","o","d","-","b","r","o","k","e","n">>, 10, 40),
      Det(<<"c","h","a","l","k","y">>, 40, 10),
      Det(<<"C","h","a","l","k","y","-","G","o","o","d">>, 10, 20),
      Det(<<"f","o","r","e","i","g","n">>, 10, 40),
      Det(<<"h","u","s","k">>, 30, 40) }

\* predictions the filter loop raises on: a width that is no number, no width
Malformed ==
    { [class |-> Str(<<"g","o","o","d">>), width |-> Str(<<"a","b","c">>),
       height |-> Num(10)],
      [class |-> Str(<<"g","o","o","d">>), height |-> Num(10)] }

RECURSIVE SeqsUpTo(_, _)
SeqsUpTo(S, n) ==
    IF n = 0 THEN {<<>>}
    ELSE LET shorter == SeqsUpTo(S, n - 1)
         IN  shorter \cup {Append(q, x) : q \in shorter, x \in S}

\* short lists holding a malformed prediction, after a prediction the loop
\* keeps, after one it skips, or first
MalformedLists ==
    SeqsUpTo(Malformed \cup {Det(<<"G","o","o","d">>, 10, 40),
                             Det(<<"g","o","o","d">>, 0, 10)}, 2)

PredLists == SeqsUpTo(Detections, MaxPreds) \cup MalformedLists

-----------------------------------------------------------------------------
(* One run of analyze_with_roboflow *)

ZeroCounts == [good |-> 0, broken |-> 0, chalky |-> 0, foreign |-> 0]

RunInit ==
    /\ pc = "start"
    /\ exc = "none"
    /\ preds = <<>>
    /\ grains = <<>>
    /\ counts = ZeroCounts
    /\ lengths_mm = <<>>
    /\ widths_mm = <<>>
    /\ good_lengths_px = <<>>
    /\ px_to_mm = FromInt(0)
    /\ median_good_len_mm = FromInt(0)
    /\ median_area_mm2 = FromInt(0)
    /\ idx = 0
    /\ total = 0
    /\ report = NoReport

Raise(e) ==
    /\ pc' = "raised"
    /\ exc' = e

\* line 119: the image decodes, or to_base64_jpeg raises ValueError
to_base64_jpeg ==
    /\ UNCHANGED apiVars
    /\ pc = "start"
    /\ \/ /\ pc' = "encoded"
          /\ exc' = exc
       \/ Raise("ValueError")
    /\ UNCHANGED <<preds, grains, counts, lengths_mm, widths_mm,
                   good_lengths_px, px_to_mm, median_good_len_mm,
                   median_area_mm2, idx, total, report>>

\* lines 120-121: the detection call returns a list, or raises
Infer ==
    /\ UNCHANGED apiVars
    /\ pc = "encoded"
    /\ \/ /\ \E ps \in PredLists : preds' = ps
          /\ pc' = "inferred"
          /\ exc' = exc
       \/ /\ \E e \in {"ValueError", "Exception"} : Raise(e)
          /\ preds' = preds
    /\ UNCHANGED <<grains, counts, lengths_mm, widths_mm, good_lengths_px,
                   px_to_mm, median_good_len_mm, median_area_mm2, idx, total,
                   report>>

\* lines 123-135
FilterPreds ==
    /\ UNCHANGED apiVars
    /\ pc = "inferred"
    /\ LET r == FilterLoop(preds, <<>>)
       IN  \/ /\ r.exc = "none"
              /\ grains' = r.grains
              /\ counts' = ZeroCounts
              /\ lengths_mm' = <<>>
              /\ widths_mm' = <<>>
              /\ pc' = "filtered"
              /\ exc' = exc
           \/ /\ r.exc # "none"
              /\ Raise(r.exc)
              /\ UNCHANGED <<grains, counts, lengths_mm, widths_mm>>
    /\ UNCHANGED <<preds, good_lengths_px, px_to_mm, median_good_len_mm,
                   median_area_mm2, idx, total, report>>

\* lines 137-149
Calibrate ==
    /\ UNCHANGED apiVars
    /\ pc = "filtered"
    /\ good_lengths_px' = GoodLengthsPx(grains)
    /\ px_to_mm' = PxToMm(good_lengths_px')
    /\ median_good_len_mm' = MedianGoodLenMm(good_lengths_px', px_to_mm')
    /\ median_area_mm2' = MedianAreaMm2(grains, px_to_mm')
    /\ idx' = 1
    /\ pc' = "classify"
    /\ UNCHANGED <<exc, preds, grains, counts, lengths_mm, widths_mm, total,
                   report>>

\* lines 151-190, one iteration
ClassifyStep ==
    /\ UNCHANGED apiVars
    /\ pc = "classify"
    /\ idx <= Len(grains)
    /\ LET st == ClassifyOne([counts |-> counts, lengths_mm |-> lengths_mm,
                               widths_mm |-> widths_mm],
                              grains[idx], px_to_mm, median_good_len_mm,
                              median_area_mm2)
       IN  /\ counts' = st.counts
           /\ lengths_mm' = st.lengths_mm
           /\ widths_mm' = st.widths_mm
    /\ idx' = idx + 1
    /\ UNCHANGED <<pc, exc, preds, grains, good_lengths_px, px_to_mm,
                   median_good_len_mm, median_area_mm2, total, report>>

\* line 192
SumTotal ==
    /\ UNCHANGED apiVars
    /\ pc = "classify"
    /\ idx > Len(grains)
    /\ total' = Total(counts)
    /\ pc' = "summed"
    /\ UNCHANGED <<exc, preds, grains, counts, lengths_mm, widths_mm,
                   good_lengths_px, px_to_mm, median_good_len_mm,
                   median_area_mm2, idx, report>>

\* lines 194-200
Sanity ==
    /\ UNCHANGED apiVars
    /\ pc = "summed"
    /\ counts' = SanityCorrection(counts, total)
    /\ pc' = "corrected"
    /\ UNCHANGED <<exc, preds, grains, lengths_mm, widths_mm,
                   good_lengths_px, px_to_mm, median_good_len_mm,
                   median_area_mm2, idx, total, report>>

\* lines 202-211
Return ==
    /\ UNCHANGED apiVars
    /\ pc = "corrected"
    /\ report' = AnalysisResult(total, counts, lengths_mm, widths_mm)
    /\ pc' = "done"
    /\ UNCHANGED <<exc, preds, grains, counts, lengths_mm, widths_mm,
                   good_lengths_px, px_to_mm, median_good_len_mm,
                   median_area_mm2, idx, total>>

analyze_with_roboflow ==
    \/ to_base64_jpeg
    \/ Infer
    \/ FilterPreds
    \/ Calibrate
    \/ ClassifyStep
    \/ SumTotal
    \/ Sanity
    \/ Return

-----------------------------------------------------------------------------
(* analyze_with_roboflow from the prediction list on, as one function:     *)
(* what the worker thread computes after rf.infer returned ps              *)

RECURSIVE ClassifyLoop(_, _, _, _, _)
ClassifyLoop(gs, st, px, med_good, med_area) ==
    IF gs = <<>> THEN st
    ELSE ClassifyLoop(Tail(gs), ClassifyOne(st, Head(gs), px, med_good, med_area),
                      px, med_good, med_area)

RunResult(ps) ==
    LET f == FilterLoop(ps, <<>>)
        good_px == GoodLengthsPx(f.grains)
        px == PxToMm(good_px)
        st == ClassifyLoop(f.grains,
                           [counts |-> ZeroCounts, lengths_mm |-> <<>>,
                            widths_mm |-> <<>>],
                           px, MedianGoodLenMm(good_px, px),
                           MedianAreaMm2(f.grains, px))
        tot == Total(st.counts)
    IN  IF f.exc # "none" THEN [exc |-> f.exc, report |-> NoReport]
        ELSE [exc |-> "none",
              report |-> AnalysisResult(tot, SanityCorrection(st.counts, tot),
                                        st.lengths_mm, st.widths_mm)]

-----------------------------------------------------------------------------
(* POST /analyze *)

\* the concurrent requests: two, so that one request's thread can finish
\* while the other request is at any position
Requests == {1, 2}

\* file.content_type: an image type, another type, or none sent
ContentTypes == {"image/png", "text/plain", "missing"}

\* the uploaded file: no file field, no bytes, bytes that are no image, an image
Bodies == {"nofile", "empty", "garbage", "image"}

NoRequest == [ctype |-> "none", body |-> "none"]

\* prediction lists the detection model returns to a request
ApiPredLists ==
    { <<>>,
      <<Det(<<"G","o","o","d">>, 10, 40), Det(<<"c","h","a","l","k","y">>, 40, 10)>> }
    \cup {<<m>> : m \in Malformed}

NoResponse ==
    [status |-> -1, error |-> "none", request_id |-> 0, header |-> 0,
     report |-> NoReport]

\* the JSON body FastAPI builds from HTTPException(status, {error, request_id})
HTTPException(status, error, rid) ==
    [status |-> status, error |-> error, request_id |-> rid, header |-> 0,
     report |-> NoReport]

\* the response FastAPI builds from the returned AnalysisResult
Returned(rep) ==
    [status |-> 200, error |-> "none", request_id |-> 0, header |-> 0,
     report |-> rep]

\* call_next raised: an exception no handler caught left the application
Unhandled ==
    [status |-> 0, error |-> "unhandled", request_id |-> 0, header |-> 0,
     report |-> NoReport]

\* the plain 500 the server writes for an exception that passed the middleware
ServerError ==
    [status |-> 500, error |-> "Internal Server Error", request_id |-> 0,
     header |-> 0, report |-> NoReport]

IdleWorker == [pc |-> "idle", at |-> "none", exc |-> "none", preds |-> <<>>,
               report |-> NoReport]

ApiInit ==
    /\ request = [r \in Requests |-> NoRequest]
    /\ request_id = [r \in Requests |-> 0]
    /\ next_uuid = 1
    /\ handler = [r \in Requests |-> "none"]
    /\ caught = [r \in Requests |-> "none"]
    /\ worker = [r \in Requests |-> IdleWorker]
    /\ infer_calls = [r \in Requests |-> 0]
    /\ inner = [r \in Requests |-> NoResponse]
    /\ response = [r \in Requests |-> NoResponse]

\* a client sends request r
Receive(r) ==
    /\ handler[r] = "none"
    /\ \E c \in ContentTypes, b \in Bodies :
          request' = [request EXCEPT ![r] = [ctype |-> c, body |-> b]]
    /\ handler' = [handler EXCEPT ![r] = "middleware"]
    /\ UNCHANGED <<request_id, next_uuid, caught, worker, infer_calls, inner,
                   response>>
    /\ UNCHANGED runVars

\* lines 59-61: up to call_next
add_request_id_enter(r) ==
    /\ handler[r] = "middleware"
    /\ request_id' = [request_id EXCEPT ![r] = next_uuid]
    /\ next_uuid' = next_uuid + 1
    /\ handler' = [handler EXCEPT ![r] = "route"]
    /\ UNCHANGED <<request, caught, worker, infer_calls, inner, response>>
    /\ UNCHANGED runVars

\* line 217: File(...) is required; without it the route answers 422
Route(r) ==
    /\ handler[r] = "route"
    /\ IF request[r].body = "nofile"
       THEN /\ inner' = [inner EXCEPT ![r] =
                            HTTPException(422, "validation_error", 0)]
            /\ handler' = [handler EXCEPT ![r] = "responding"]
       ELSE /\ inner' = inner
            /\ handler' = [handler EXCEPT ![r] = "analyze"]
    /\ UNCHANGED <<request, request_id, next_uuid, caught, worker,
                   infer_calls, response>>
    /\ UNCHANGED runVars

\* lines 218-220.  With no content type sent, file.content_type is None
\* (startswith raises AttributeError, which nothing catches) or "" depending
\* on the Starlette release
analyze_check(r) ==
    /\ handler[r] = "analyze"
    /\ LET rid == request_id[r]
       IN  \/ /\ request[r].ctype = "image/png"
              /\ handler' = [handler EXCEPT ![r] = "read"]
              /\ inner' = inner
           \/ /\ request[r].ctype # "image/png"
              /\ inner' = [inner EXCEPT ![r] =
                              HTTPException(415, "unsupported_media_type", rid)]
              /\ handler' = [handler EXCEPT ![r] = "responding"]
           \/ /\ request[r].ctype = "missing"
              /\ inner' = [inner EXCEPT ![r] = Unhandled]
              /\ handler' = [handler EXCEPT ![r] = "responding"]
    /\ UNCHANGED <<request, request_id, next_uuid, caught, worker,
                   infer_calls, response>>
    /\ UNCHANGED runVars

\* lines 222-230: read the file, reject an empty one, start the thread
analyze_read(r) ==
    /\ handler[r] = "read"
    /\ IF request[r].body = "empty"
       THEN /\ inner' = [inner EXCEPT ![r] =
                            HTTPException(400, "empty_file", request_id[r])]
            /\ handler' = [handler EXCEPT ![r] = "responding"]
            /\ worker' = worker
       ELSE /\ worker' = [worker EXCEPT ![r].pc = "start"]
            /\ handler' = [handler EXCEPT ![r] = "waiting"]
            /\ inner' = inner
    /\ UNCHANGED <<request, request_id, next_uuid, caught, infer_calls,
                   response>>
    /\ UNCHANGED runVars

\* the thread, line 119
worker_encode(r) ==
    /\ worker[r].pc = "start"
    /\ IF request[r].body = "garbage"
       THEN worker' = [worker EXCEPT ![r].pc = "raised",
                                     ![r].at = "to_base64_jpeg",
                                     ![r].exc = "ValueError"]
       ELSE worker' = [worker EXCEPT ![r].pc = "encoded"]
    /\ UNCHANGED <<request, request_id, next_uuid, handler, caught,
                   infer_calls, inner, response>>
    /\ UNCHANGED runVars

\* the thread, lines 120-121
worker_infer(r) ==
    /\ worker[r].pc = "encoded"
    /\ infer_calls' = [infer_calls EXCEPT ![r] = @ + 1]
    /\ \/ \E ps \in ApiPredLists :
             worker' = [worker EXCEPT ![r].pc = "inferred", ![r].preds = ps]
       \/ \E e \in {"ValueError", "Exception"} :
             worker' = [worker EXCEPT ![r].pc = "raised", ![r].at = "infer",
                                      ![r].exc = e]
    /\ UNCHANGED <<request, request_id, next_uuid, handler, caught, inner,
                   response>>
    /\ UNCHANGED runVars

\* the thread, lines 123-211
worker_process(r) ==
    /\ worker[r].pc = "inferred"
    /\ LET res == RunResult(worker[r].preds)
       IN  IF res.exc # "none"
           THEN worker' = [worker EXCEPT ![r].pc = "raised",
                                         ![r].at = "process",
                                         ![r].exc = res.exc]
           ELSE worker' = [worker EXCEPT ![r].pc = "returned",
                                         ![r].report = res.report]
    /\ UNCHANGED <<request, request_id, next_uuid, handler, caught,
                   infer_calls, inner, response>>
    /\ UNCHANGED runVars

\* the except clauses without the one for the timeout
ExceptClause_NoTimeout(e, rid) ==
    IF e = "ValueError" THEN HTTPException(400, "invalid_image", rid)
    ELSE HTTPException(500, "internal_error", rid)

\* The except clauses of lines 231-237, in order
ExceptClause(e, rid) ==
    IF e = "TimeoutError" THEN HTTPException(504, "roboflow_timeout", rid)
    ELSE IF e = "ValueError" THEN HTTPException(400, "invalid_image", rid)
    ELSE HTTPException(500, "internal_error", rid)

\* lines 227-237: the awaited thread finished within the timeout
analyze_result(r) ==
    /\ handler[r] = "waiting"
    /\ worker[r].pc \in {"returned", "raised"}
    /\ IF worker[r].pc = "returned"
       THEN /\ inner' = [inner EXCEPT ![r] = Returned(worker[r].report)]
            /\ caught' = caught
       ELSE /\ inner' = [inner EXCEPT ![r] =
                            ExceptClause(worker[r].exc, request_id[r])]
            /\ caught' = [caught EXCEPT ![r] = worker[r].exc]
    /\ handler' = [handler EXCEPT ![r] = "responding"]
    /\ UNCHANGED <<request, request_id, next_uuid, worker, infer_calls,
                   response>>
    /\ UNCHANGED runVars

\* lines 227-232: TIMEOUT passed first; wait_for raises TimeoutError and the
\* thread, which cannot be stopped, runs on
analyze_timeout(r) ==
    /\ handler[r] = "waiting"
    /\ caught' = [caught EXCEPT ![r] = "TimeoutError"]
    /\ inner' = [inner EXCEPT ![r] = ExceptClause("TimeoutError", request_id[r])]
    /\ handler' = [handler EXCEPT ![r] = "responding"]
    /\ UNCHANGED <<request, request_id, next_uuid, worker, infer_calls,
                   response>>
    /\ UNCHANGED runVars

\* lines 61-63: call_next returned a response, which gets the header; an
\* exception raised by call_next leaves the middleware and the server
\* answers 500
add_request_id_exit(r) ==
    /\ handler[r] = "responding"
    /\ IF inner[r] = Unhandled
       THEN response' = [response EXCEPT ![r] = ServerError]
       ELSE response' = [response EXCEPT ![r] =
                            [inner[r] EXCEPT !.header = request_id[r]]]
    /\ handler' = [handler EXCEPT ![r] = "sent"]
    /\ UNCHANGED <<request, request_id, next_uuid, caught, worker,
                   infer_calls, inner>>
    /\ UNCHANGED runVars

add_request_id(r) ==
    \/ add_request_id_enter(r)
    \/ add_request_id_exit(r)

analyze(r) ==
    \/ Route(r)
    \/ analyze_check(r)
    \/ analyze_read(r)
    \/ analyze_result(r)
    \/ analyze_timeout(r)

WorkerThread(r) ==
    \/ worker_encode(r)
    \/ worker_infer(r)
    \/ worker_process(r)

-----------------------------------------------------------------------------
(* Specifications *)

Init == RunInit /\ ApiInit

Next == analyze_with_roboflow

Spec == Init /\ [][Next]_vars

ApiNext ==
    \E r \in Requests :
        \/ Receive(r)
        \/ add_request_id(r)
        \/ analyze(r)
        \/ WorkerThread(r)

SpecApi == Init /\ [][ApiNext]_vars

-----------------------------------------------------------------------------
(* Properties of one run (Spec) *)

\* positions after the calibration
Calibrated == pc \in {"classify", "summed", "corrected", "done"}

BucketOf(i) ==
    Bucket(grains[i], px_to_mm, median_good_len_mm, median_area_mm2)

ForeignAt(i) == ForeignTest(grains[i], px_to_mm, median_area_mm2)

ShortAt(i) == HeuristicBroken(grains[i], px_to_mm, median_good_len_mm)

Card(S) == Cardinality(S)

\* C1: in every state the four counters are >= 0; once total is computed
\* (before the sanity correction, after it, and in the report) it equals
\* good + broken + chalky, with foreign left out of it.
C1_TotalIsSum ==
    /\ \A b \in {"good", "broken", "chalky", "foreign"} : counts[b] >= 0
    /\ pc \in {"summed", "corrected"} =>
          total = counts.good + counts.broken + counts.chalky
    /\ pc = "done" =>
          /\ report.total_grains = total
          /\ report.total_grains =
                report.good_grains + report.broken_grains + report.chalky_grains
          /\ report.good_grains >= 0 /\ report.broken_grains >= 0
          /\ report.chalky_grains >= 0 /\ report.foreign_matter >= 0
          /\ report.foreign_matter = counts.foreign

\* C1 witness: a report with foreign matter, grains, and a correction that
\* moved every chalky grain to good.
C1_Witness ==
    /\ pc = "done"
    /\ report.foreign_matter > 0
    /\ report.total_grains > 0
    /\ report.chalky_grains = 0
    /\ \E i \in 1..Len(grains) : BucketOf(i) = "chalky"

\* C2: when the loop has ended, before the sanity correction, each counter
\* equals the number of detections whose first matching predicate, in the order
\* foreign, broken, chalky, good, is that bucket; the four counters and the
\* unmatched detections add up to the surviving detections; and the grains
\* are exactly the predictions of positive width and height.
C2_FirstMatch ==
    pc = "summed" =>
        LET P == 1..Len(grains)
            F == {i \in P : ForeignAt(i)}
            B == {i \in P \ F : is_broken(grains[i].cls)}
            Ch == {i \in P \ (F \cup B) : is_chalky(grains[i].cls)}
            G == {i \in P \ (F \cup B \cup Ch) : is_good(grains[i].cls)}
            D == P \ (F \cup B \cup Ch \cup G)
        IN  /\ counts.foreign = Card(F)
            /\ counts.broken = Card(B) + Card({i \in G : ShortAt(i)})
            /\ counts.chalky = Card(Ch)
            /\ counts.good = Card({i \in G : ~ShortAt(i)})
            /\ counts.good + counts.broken + counts.chalky + counts.foreign
                 + Card(D) = Card(P)
            /\ Len(grains) =
                 Card({k \in 1..Len(preds) :
                          preds[k].width.num > 0 /\ preds[k].height.num > 0})

\* C2 witness: the loop has ended with a prediction filtered out, a label
\* matching both "good" and "broken" counted as broken, and a detection
\* dropped.
C2_Witness ==
    /\ pc = "summed"
    /\ Len(grains) < Len(preds)
    /\ counts.broken = 1
    /\ counts.good = 0
    /\ \E i \in 1..Len(grains) :
          is_good(grains[i].cls) /\ is_broken(grains[i].cls)
    /\ \E i \in 1..Len(grains) : BucketOf(i) = "none"

\* C3: the correction step moves exactly chalky - floor(0.35 * total) grains
\* from chalky to good when total > 0 and chalky exceeds that floor, and
\* changes no counter otherwise; total, broken, foreign and the samples are
\* left alone, and the counters do not change after it.
C3_SanityCorrection ==
    [][ /\ pc = "summed" =>
            LET cap == (35 * total) \div 100
            IN  /\ IF total > 0 /\ counts.chalky > cap
                   THEN /\ counts'.chalky = cap
                        /\ counts'.good = counts.good + (counts.chalky - cap)
                   ELSE /\ counts'.chalky = counts.chalky
                        /\ counts'.good = counts.good
                /\ counts'.broken = counts.broken
                /\ counts'.foreign = counts.foreign
                /\ total' = total
                /\ lengths_mm' = lengths_mm
                /\ widths_mm' = widths_mm
        /\ pc \in {"corrected", "done"} => counts' = counts /\ total' = total
      ]_vars

\* C3 witness: after the correction of three grains of which two were
\* chalky, one chalky grain is left.
C3_Witness ==
    /\ pc = "corrected"
    /\ total = 3
    /\ counts.chalky = 1
    /\ Card({i \in 1..Len(grains) : BucketOf(i) = "chalky"}) = 2

\* C4: every recorded length lies in [5.5, 9.5] and every recorded width in
\* [1.4, 2.8], and there is one sample pair per detection counted in good,
\* broken or chalky.
C4_SamplesClamped ==
    /\ \A i \in 1..Len(lengths_mm) :
          /\ RLeq(CLAMP_LENGTH_MM_MIN, lengths_mm[i])
          /\ RLeq(lengths_mm[i], CLAMP_LENGTH_MM_MAX)
    /\ \A i \in 1..Len(widths_mm) :
          /\ RLeq(CLAMP_WIDTH_MM_MIN, widths_mm[i])
          /\ RLeq(widths_mm[i], CLAMP_WIDTH_MM_MAX)
    /\ Len(lengths_mm) = counts.good + counts.broken + counts.chalky
    /\ Len(widths_mm) = Len(lengths_mm)

\* C4 witness: a grain longer than 9.5 mm recorded at the upper bound, a
\* width recorded at the lower bound, and a detection that was not recorded.
C4_Witness ==
    /\ pc = "summed"
    /\ \E i \in 1..Len(grains) :
          /\ Recorded(BucketOf(i))
          /\ RLess(CLAMP_LENGTH_MM_MAX, LengthMmRaw(grains[i], px_to_mm))
    /\ \E i \in 1..Len(lengths_mm) : lengths_mm[i] = CLAMP_LENGTH_MM_MAX
    /\ \E i \in 1..Len(widths_mm) : widths_mm[i] = CLAMP_WIDTH_MM_MIN
    /\ Len(lengths_mm) < Len(grains)

\* The grain the loop is about to classify is good-labelled and its raw
\* length is below 0.6 * median_good_len_mm
ShortGoodNext ==
    /\ pc = "classify"
    /\ idx <= Len(grains)
    /\ is_good(grains[idx].cls)
    /\ 10 * grains[idx].length_px * px_to_mm.num * median_good_len_mm.den
          < 6 * median_good_len_mm.num * px_to_mm.den

CountedBroken ==
    /\ counts'.broken = counts.broken + 1
    /\ counts'.good = counts.good

\* C5 as stated: every good-labelled detection shorter than 0.6 times the
\* median good length is counted broken, not good.
C5_Original == [][ShortGoodNext => CountedBroken]_vars

\* C5 amended: such a detection is counted broken, not good, provided it is
\* not foreign (by label or by geometry) and its label does not contain
\* "chalky".
C5_BrokenOverride ==
    [][ ( /\ ShortGoodNext
          /\ ~ForeignAt(idx)
          /\ ~is_chalky(grains[idx].cls) ) => CountedBroken ]_vars

\* C5 witness: the loop has just counted a short, good-labelled grain that
\* is neither foreign nor chalky nor broken-labelled.
C5_Witness ==
    /\ pc = "classify"
    /\ idx > 1
    /\ is_good(grains[idx - 1].cls)
    /\ ~is_broken(grains[idx - 1].cls)
    /\ ~is_chalky(grains[idx - 1].cls)
    /\ ~ForeignAt(idx - 1)
    /\ ShortAt(idx - 1)
    /\ counts.broken >= 1

\* lengths of the good-labelled predictions the filter loop keeps
GoodPxOfPreds ==
    LET kept == SelectSeq(preds, LAMBDA p :
                    p.width.num > 0 /\ p.height.num > 0 /\ is_good(norm(p.class.str)))
    IN  [i \in 1..Len(kept) |->
            IF kept[i].width.num < kept[i].height.num
            THEN kept[i].height.num ELSE kept[i].width.num]

\* C6: nothing is classified before the calibration; from the calibration
\* on px_to_mm is PX_TO_MM when no good-labelled detection survives and
\* TARGET_MEDIAN_GRAIN_LENGTH_MM / median otherwise (7.4 / L for a single one
\* of length L), it is > 0, and no later step changes it.
C6_Calibration ==
    /\ [] ( /\ ~Calibrated => counts = ZeroCounts /\ lengths_mm = <<>>
            /\ Calibrated =>
                  LET good == GoodPxOfPreds
                  IN  /\ good = <<>> => px_to_mm = [num |-> 9, den |-> 50]
                      /\ good # <<>> =>
                            10 * px_to_mm.num * MedianInt(good).num
                               = 74 * px_to_mm.den * MedianInt(good).den
                      /\ Len(good) = 1 =>
                            10 * px_to_mm.num * good[1] = 74 * px_to_mm.den
                      /\ px_to_mm.num > 0 /\ px_to_mm.den > 0 )
    /\ [][Calibrated => px_to_mm' = px_to_mm]_vars

\* C6 witness: the loop has classified a grain under a scalar calibrated on
\* two good-labelled detections of different lengths.
C6_Witness ==
    /\ pc = "classify"
    /\ idx > 1
    /\ Len(good_lengths_px) = 2
    /\ good_lengths_px[1] # good_lengths_px[2]
    /\ px_to_mm # PX_TO_MM

\* C7: when no detection lands in good, broken or chalky (the empty list
\* included) the run raises nothing after the detection call and reports
\* zero grains, 5.5 mm and 1.4 mm, with the correction changing nothing.
C7_EmptyCase ==
    /\ (pc = "inferred" /\ preds = <<>>) => FilterLoop(preds, <<>>).exc = "none"
    /\ Calibrated => exc = "none"
    /\ ( /\ pc \in {"corrected", "done"}
         /\ \A i \in 1..Len(grains) : ~Recorded(BucketOf(i)) ) =>
          /\ total = 0
          /\ counts.good = 0 /\ counts.broken = 0 /\ counts.chalky = 0
          /\ pc = "done" =>
                /\ report.total_grains = 0
                /\ report.good_grains = 0
                /\ report.broken_grains = 0
                /\ report.chalky_grains = 0
                /\ report.avg_grain_length_mm = [num |-> 11, den |-> 2]
                /\ report.avg_grain_width_mm = [num |-> 7, den |-> 5]

\* C7 witness: a report for detections that all went to foreign or were
\* dropped.
C7_Witness ==
    /\ pc = "done"
    /\ Len(grains) = 2
    /\ report.total_grains = 0
    /\ report.foreign_matter = 1

\* C7, the empty list itself
C7_WitnessEmpty == pc = "done" /\ preds = <<>> /\ report.total_grains = 0

-----------------------------------------------------------------------------
(* Properties of POST /analyze (SpecApi) *)

Answered(r) == response[r] # NoResponse

Failure(r) == Answered(r) /\ response[r].status # 200

\* C8 as stated: every failure response carries the request's identifier,
\* in its body or in the X-Request-ID header.
C8_FailureCarriesRequestId ==
    \A r \in Requests :
        Failure(r) =>
            /\ request_id[r] # 0
            /\ \/ response[r].request_id = request_id[r]
               \/ response[r].header = request_id[r]

\* C9 as stated: invalid_image is answered only when to_base64_jpeg raised,
\* before any detection call; a failure of the detection call or of the
\* processing of its result, other than a timeout, is answered internal_error.
C9_FailureKindsDistinct ==
    \A r \in Requests :
        /\ (Answered(r) /\ response[r].error = "invalid_image") =>
              worker[r].at = "to_base64_jpeg" /\ infer_calls[r] = 0
        /\ ( /\ Answered(r)
             /\ caught[r] \notin {"none", "TimeoutError"}
             /\ worker[r].at \in {"infer", "process"} ) =>
              response[r].error = "internal_error"

\* C10: a request whose wait ended in TimeoutError is answered 504
\* roboflow_timeout without a report; only a 200 answer holds a report, and
\* it is the whole report of the request's own prediction list; rf.infer is
\* called at most once per request; and an answer, once given, never changes,
\* whatever the threads do afterwards.
C10_AllOrNothing ==
    /\ [] (\A r \in Requests :
            /\ infer_calls[r] <= 1
            /\ caught[r] = "TimeoutError" =>
                  /\ inner[r].status = 504
                  /\ inner[r].error = "roboflow_timeout"
                  /\ inner[r].report = NoReport
                  /\ Answered(r) =>
                        /\ response[r].status = 504
                        /\ response[r].error = "roboflow_timeout"
                        /\ response[r].report = NoReport
            /\ (Answered(r) /\ response[r].report # NoReport) =>
                  /\ response[r].status = 200
                  /\ caught[r] = "none"
                  /\ worker[r].pc = "returned"
                  /\ response[r].report = RunResult(worker[r].preds).report
            /\ (Answered(r) /\ response[r].status = 200) =>
                  response[r].report # NoReport)
    /\ [][\A r \in Requests : Answered(r) => response'[r] = response[r]]_vars

\* C10 witness: request 1 was answered 504 and its thread returned a report
\* afterwards, while request 2 was answered 200 with a report of its own.
C10_Witness ==
    /\ Answered(1)
    /\ response[1].status = 504
    /\ worker[1].pc = "returned"
    /\ worker[1].report.total_grains = 0
    /\ Answered(2)
    /\ response[2].status = 200
    /\ response[2].report.total_grains = 2

=============================================================================
